---- MODULE Spec2Model ----
(***************************************************************************)
(* Model of src/fetch_pubmed_fulltext.py (class PubMedFetcher).            *)
(*                                                                         *)
(* Strings are sequences of one-character strings.  A Python value that    *)
(* may be None is a record [t, s]: t = "None" or t = "str" with s the      *)
(* characters.  An XML element that may be missing is a sequence of        *)
(* length 0 (find() returned None) or 1 (the element).                     *)
(***************************************************************************)
EXTENDS Integers, Sequences, FiniteSets, TLC

VARIABLES
    \* parse_metadata: position, the record given, the value returned
    pm_pc, pm_doc, pm_result,
    \* clean_filename: position, the title given, the value returned
    fn_pc, fn_title, fn_result,
    \* extractors: position, the call (function, argument, what the remote end
    \* or the tool answers), the text the length test was applied to, the value
    \* returned
    ex_pc, ex_call, ex_cleaned, ex_result,
    \* convert_pdf_to_text: its locals, the files of the temporary directory
    \* (name -> content), the number of extractor calls started
    ex_local, tmp_files, ex_n,
    \* process_pmid_list: position, the lines of the identifier file, its locals
    \* pmids, i, success_count, fail_count, the number of pauses made
    d_pc, lines, pmids, i, success_count, fail_count, sleeps,
    \* process_pmid: its locals
    xml_data, metadata, full_text,
    \* the output directory (file name -> document)
    documents,
    \* history: the functions process_pmid has called for the current
    \* identifier, what the full-text attempts returned and what save_article
    \* was given, and the outcome of every finished iteration
    calls, attempts, handled

pm_vars == <<pm_pc, pm_doc, pm_result>>

fn_vars == <<fn_pc, fn_title, fn_result>>

ex_vars == <<ex_pc, ex_call, ex_cleaned, ex_result, ex_local, tmp_files, ex_n>>

d_vars ==
    <<d_pc, lines, pmids, i, success_count, fail_count, sleeps, xml_data, metadata,
      full_text, documents, calls, attempts, handled>>

vars == <<pm_vars, fn_vars, ex_vars, d_vars>>

(***************************************************************************)
(* Python values                                                           *)
(***************************************************************************)
NoneV == [t |-> "None", s |-> <<>>]

Str(chars) == [t |-> "str", s |-> chars]

\* bool(v) for v a str or None
Truthy(v) == v.t = "str" /\ v.s # <<>>

\* str(v) as an f-string placeholder renders it
Format(v) == IF v.t = "None" THEN <<"N", "o", "n", "e">> ELSE v.s

RECURSIVE Join(_, _)
\* sep.join(parts), parts a sequence of strings
Join(parts, sep) ==
    IF parts = <<>> THEN <<>>
    ELSE IF Len(parts) = 1 THEN parts[1]
    ELSE parts[1] \o sep \o Join(Tail(parts), sep)

Min(a, b) == IF a <= b THEN a ELSE b

\* identifiers the inputs use
D1 == <<"1", "0", ".", "1">>

D2 == <<"1", "0", ".", "2">>

PMC1 == <<"P", "M", "C", "1">>

PMC2 == <<"P", "M", "C", "2">>

(***************************************************************************)
(* parse_metadata                                                          *)
(***************************************************************************)
Unknown == <<"U", "n", "k", "n", "o", "w", "n">>

NoMetadata == [t |-> "None"]

\* ''.join(elem.itertext())
IterText(elem) == Join(elem.frags, <<>>)

\* lines 54-55
ParseTitle(article) ==
    IF article.title # <<>> THEN Str(IterText(article.title[1])) ELSE Str(Unknown)

\* lines 62-67: one AbstractText element
AbstractPart(at) ==
    IF at.label # <<>> THEN at.label \o <<":", " ">> \o IterText(at) ELSE IterText(at)

\* lines 58-69
ParseAbstract(article) ==
    LET abstract_parts ==
            IF article.abstract # <<>>
            THEN [k \in 1..Len(article.abstract[1]) |-> AbstractPart(article.abstract[1][k])]
            ELSE <<>>
    IN  IF abstract_parts # <<>> THEN Str(Join(abstract_parts, <<"\n", "\n">>)) ELSE Str(<<>>)

\* lines 76-82: one Author element (called only when LastName is present)
AuthorName(author) ==
    IF author.fore # <<>>
    THEN Str(Format(author.fore[1]) \o <<" ">> \o Format(author.last[1]))
    ELSE author.last[1]

HasLastName(author) == author.last # <<>>

\* lines 72-82
ParseAuthors(article) ==
    IF article.authors # <<>>
    THEN LET kept == SelectSeq(article.authors[1], HasLastName)
         IN  [k \in 1..Len(kept) |-> AuthorName(kept[k])]
    ELSE <<>>

\* lines 85-89
ParseJournal(article) ==
    IF article.journal # <<>>
    THEN IF article.journal[1].title # <<>> THEN article.journal[1].title[1] ELSE Str(<<>>)
    ELSE Str(<<>>)

\* lines 92-96
ParseYear(article) ==
    IF article.pubdate # <<>>
    THEN IF article.pubdate[1].year # <<>> THEN article.pubdate[1].year[1] ELSE Str(<<>>)
    ELSE Str(<<>>)

\* the loop of lines 103-108 with a break after the first match of id_type
ScanIdsBreak(ids, id_type, acc) ==
    LET hits == { k \in 1..Len(ids) : ids[k].idtype = id_type }
    IN  IF hits = {} THEN acc
        ELSE ids[CHOOSE k \in hits : \A j \in hits : k <= j].text

RECURSIVE ScanIds(_, _, _)
\* lines 103-108: the loop over the ArticleId children; acc is the value so far
ScanIds(ids, id_type, acc) ==
    IF ids = <<>> THEN acc
    ELSE ScanIds(Tail(ids), id_type,
                 IF Head(ids).idtype = id_type THEN Head(ids).text ELSE acc)

\* lines 99-108
ParseId(doc, id_type) ==
    IF doc.idlist # <<>> THEN ScanIds(doc.idlist[1], id_type, Str(<<>>)) ELSE Str(<<>>)

\* lines 53-118: the dictionary built for a record with an Article element
MetadataOf(doc) ==
    [t        |-> "dict",
     title    |-> ParseTitle(doc.article[1]),
     abstract |-> ParseAbstract(doc.article[1]),
     authors  |-> ParseAuthors(doc.article[1]),
     journal  |-> ParseJournal(doc.article[1]),
     year     |-> ParseYear(doc.article[1]),
     doi      |-> ParseId(doc, "doi"),
     pmc_id   |-> ParseId(doc, "pmc")]

\* parse_metadata with defaults in place of "return None" at lines 50-51
parse_metadata_defaults(doc) ==
    IF ~doc.wellformed THEN NoMetadata
    ELSE IF doc.article = <<>>
    THEN [t |-> "dict", title |-> Str(Unknown), abstract |-> Str(<<>>), authors |-> <<>>,
          journal |-> Str(<<>>), year |-> Str(<<>>), doi |-> ParseId(doc, "doi"),
          pmc_id |-> ParseId(doc, "pmc")]
    ELSE MetadataOf(doc)

\* lines 44-121: ET.fromstring raises on text that is not XML (handled at
\* lines 119-121); a record without an Article element gives None
parse_metadata(doc) ==
    IF ~doc.wellformed THEN NoMetadata
    ELSE IF doc.article = <<>> THEN NoMetadata
    ELSE MetadataOf(doc)

(***************************************************************************)
(* clean_filename                                                          *)
(***************************************************************************)
\* characters the model draws from: \w matches WordChars, \s matches SpaceChars
WordChars == {"a", "x", "7", "_"}

SpaceChars == {" ", "\t", "\n"}

OtherChars == {"-", "!"}

IsWord(c) == c \in WordChars

IsSpace(c) == c \in SpaceChars

FilenameLimit == 100

\* line 260: kept by re.sub(r'[^\w\s-]', '', text)
KeptInFilename(c) == IsWord(c) \/ IsSpace(c) \/ c = "-"

RemoveInvalid(text) == SelectSeq(text, KeptInFilename)

\* re.sub(r'\s', '_', text): every whitespace character becomes an underscore
UnderscoreEachSpace(text) ==
    [k \in 1..Len(text) |-> IF IsSpace(text[k]) THEN "_" ELSE text[k]]

\* line 261: re.sub(r'[\s]+', '_', text): every maximal whitespace run becomes
\* one underscore
CollapseToUnderscore(text) ==
    LET marked == [k \in 1..Len(text) |->
                      [c |-> text[k],
                       inrun |-> k > 1 /\ IsSpace(text[k]) /\ IsSpace(text[k - 1])]]
        heads == SelectSeq(marked, LAMBDA m : ~m.inrun)
    IN  [k \in 1..Len(heads) |-> IF IsSpace(heads[k].c) THEN "_" ELSE heads[k].c]

\* line 262: text[:100]
Truncate(text) == SubSeq(text, 1, Min(FilenameLimit, Len(text)))

\* lines 257-263
clean_filename(text) == Truncate(CollapseToUnderscore(RemoveInvalid(text)))

MaxTitleLen == 3

Pad(n) == [k \in 1..n |-> "x"]

TitleChars == {"a", "7", "_"} \cup SpaceChars \cup OtherChars

\* titles: a run of n letters followed by up to MaxTitleLen arbitrary characters
TitlePads == {0, FilenameLimit - 2, FilenameLimit}

Titles ==
    { Pad(n) \o tail : n \in TitlePads,
                       tail \in UNION { [1..m -> TitleChars] : m \in 0..MaxTitleLen } }

FilenameIdle ==
    /\ fn_pc = "off"
    /\ fn_title = <<>>
    /\ fn_result = <<>>

(***************************************************************************)
(* Full-text extractors                                                    *)
(***************************************************************************)
MinContentLen == 500

\* str.strip()
Strip(text) ==
    IF \A k \in 1..Len(text) : IsSpace(text[k]) THEN <<>>
    ELSE SubSeq(text,
                CHOOSE k \in 1..Len(text) :
                    ~IsSpace(text[k]) /\ \A j \in 1..(k - 1) : IsSpace(text[j]),
                CHOOSE k \in 1..Len(text) :
                    ~IsSpace(text[k]) /\ \A j \in (k + 1)..Len(text) : IsSpace(text[j]))

\* lines 148-151: "if t and t.strip()" for t an element's text or tail
NonBlank(t) == Truthy(t) /\ Strip(t.s) # <<>>

\* lines 144-151: the stripped non-blank text and tail fragments, in document order
TextParts(frags) ==
    LET kept == SelectSeq(frags, NonBlank)
    IN  [k \in 1..Len(kept) |-> Strip(kept[k].s)]

\* line 155: re.sub(r'\s+', ' ', full_text)
CollapseWhitespace(text) ==
    LET marked == [k \in 1..Len(text) |->
                      [c |-> text[k],
                       inrun |-> k > 1 /\ IsSpace(text[k]) /\ IsSpace(text[k - 1])]]
        heads == SelectSeq(marked, LAMBDA m : ~m.inrun)
    IN  [k \in 1..Len(heads) |-> IF IsSpace(heads[k].c) THEN " " ELSE heads[k].c]

\* lines 153-155: the text whose length is tested
PmcFullText(frags) == CollapseWhitespace(Join(TextParts(frags), <<" ">>))

\* "full_text if len(full_text) >= 500 else None"
PmcAtLeastThreshold(text) ==
    IF Len(text) >= MinContentLen THEN Str(text) ELSE NoneV

\* line 157
PmcThreshold(text) ==
    IF Len(text) > MinContentLen THEN Str(text) ELSE NoneV

\* lines 123-160: resp is what the remote end answers to the request for the
\* id (sent without its PMC prefix): a fault (network, status, XML parse) or
\* the fragments of the parsed record
fetch_from_pmc(pmc_id, resp) ==
    IF ~Truthy(pmc_id) THEN NoneV
    ELSE IF ~resp.ok THEN NoneV
    ELSE PmcThreshold(PmcFullText(resp.frags))

\* the text fetch_from_pmc tests against the threshold (None when it returns before)
PmcTested(pmc_id, resp) ==
    IF Truthy(pmc_id) /\ resp.ok THEN Str(PmcFullText(resp.frags)) ELSE NoneV

RECURSIVE SortedSeq(_)
\* the elements of a finite set of integers in increasing order
SortedSeq(S) ==
    IF S = {} THEN <<>>
    ELSE LET m == CHOOSE x \in S : \A y \in S : x <= y
         IN  <<m>> \o SortedSeq(S \ {m})

\* str.splitlines() for the line break "\n"
SplitLines(text) ==
    LET breaks == { k \in 1..Len(text) : text[k] = "\n" }
        starts == SortedSeq({ b \in {1} \cup { k + 1 : k \in breaks } : b <= Len(text) })
        stop(b) == IF \E k \in breaks : k >= b
                   THEN (CHOOSE k \in breaks : k >= b /\ \A j \in breaks : j >= b => k <= j) - 1
                   ELSE Len(text)
    IN  [n \in 1..Len(starts) |-> SubSeq(text, starts[n], stop(starts[n]))]

\* lines 213-215
CleanLines(text) ==
    LET stripped == [n \in 1..Len(SplitLines(text)) |-> Strip(SplitLines(text)[n])]
        nonblank == SelectSeq(stripped, LAMBDA line : line # <<>>)
    IN  Join(nonblank, <<"\n", "\n">>)

\* line 218: re.sub(r'\n\n+', '\n\n', text): a run of two or more line breaks
\* becomes exactly two
CollapseBlankLines(text) ==
    LET marked == [k \in 1..Len(text) |->
                      [c |-> text[k],
                       extra |-> k > 2 /\ text[k] = "\n" /\ text[k - 1] = "\n"
                                       /\ text[k - 2] = "\n"]]
        kept == SelectSeq(marked, LAMBDA m : ~m.extra)
    IN  [k \in 1..Len(kept) |-> kept[k].c]

\* lines 202-210: html.regions holds, in the priority order of article_selectors,
\* the text of each selector's first match (after the script, style, nav,
\* header and footer elements are removed), or nothing when it matches nothing;
\* html.page is soup.get_text()
SelectedText(html) ==
    LET found == { k \in 1..Len(html.regions) : html.regions[k] # <<>> }
        text == IF found = {} THEN <<>>
                ELSE html.regions[CHOOSE k \in found : \A j \in found : k <= j][1]
    IN  IF text = <<>> THEN html.page ELSE text

\* lines 202-218: the text whose length is tested
HtmlText(html) == CollapseBlankLines(CleanLines(SelectedText(html)))

\* line 220
HtmlThreshold(text) ==
    IF Len(text) > MinContentLen THEN Str(text) ELSE NoneV

\* lines 183-223: html.parses is FALSE when the parser raises
extract_text_from_html(html) ==
    IF ~html.parses THEN NoneV ELSE HtmlThreshold(HtmlText(html))

HtmlTested(html) == IF html.parses THEN Str(HtmlText(html)) ELSE NoneV

\* lines 173-181: answers[k] is what source k answers: "error" (the request
\* raises), "status" (a status other than 200) or "ok" with the page
FirstOk(answers) ==
    { k \in 1..Len(answers) : answers[k].kind = "ok"
                               /\ \A j \in 1..(k - 1) : answers[j].kind # "ok" }

\* lines 162-181
fetch_from_doi(doi, answers) ==
    IF ~Truthy(doi) THEN NoneV
    ELSE IF FirstOk(answers) = {} THEN NoneV
    ELSE extract_text_from_html(answers[CHOOSE k \in FirstOk(answers) : TRUE].html)

DoiTested(doi, answers) ==
    IF Truthy(doi) /\ FirstOk(answers) # {}
    THEN HtmlTested(answers[CHOOSE k \in FirstOk(answers) : TRUE].html)
    ELSE NoneV

\* line 250
PdfThreshold(text) ==
    IF Len(text) > MinContentLen THEN Str(text) ELSE NoneV

\* tempfile.NamedTemporaryFile(suffix=..., delete=False): a fresh name
TempName(suffix, n) == [suffix |-> suffix, call |-> n]

NoLocals == [tmp_pdf_path |-> <<>>, tmp_txt_path |-> <<>>, returncode |-> <<>>]

NoFiles == <<>>

\* the directory with file name added (or overwritten) holding content
WithFile(files, name, content) ==
    [f \in DOMAIN files \cup {name} |-> IF f = name THEN content ELSE files[f]]

\* Path(name).unlink(missing_ok=True)
Unlink(files, name) == [f \in DOMAIN files \ {name} |-> files[f]]

(***************************************************************************)
(* Inputs of the extractors                                                *)
(***************************************************************************)
Slack == 6

MaxCalls == 2

\* text lengths around the threshold
TextLens == (MinContentLen - Slack)..(MinContentLen + Slack)

Fault == [ok |-> FALSE, frags |-> <<>>]

\* "Intro ", a blank tail, an element without text, "B  g", then the body
IntroFrags ==
    << Str(<<"I", "n", "t", "r", "o", " ">>), Str(<<" ", "\n">>), NoneV,
       Str(<<"B", " ", "\n", "g">>) >>

PmcAnswers ==
    {Fault}
    \cup { [ok |-> TRUE, frags |-> << Str(Pad(n)) >>] : n \in TextLens }
    \cup { [ok |-> TRUE, frags |-> IntroFrags \o << Str(Pad(n - 10)) >>] : n \in TextLens }

PmcCalls ==
    [fn : {"fetch_from_pmc"}, arg : {NoneV, Str(<<>>), Str(PMC1)}, answer : PmcAnswers]

\* a page text of n characters after clean-up: a heading, blank lines, the body
PageText(n) ==
    <<" ", "H", "d", " ", "\n", "\n", "\n", " ", "\t", "\n">> \o Pad(n - 4) \o <<" ", "\n">>

Short == <<"s", "h", "o", "r", "t">>

NoRegions == << <<>>, <<>>, <<>>, <<>>, <<>>, <<>> >>

HtmlDocs ==
    { [parses |-> FALSE, regions |-> NoRegions, page |-> <<>>] }
    \cup { [parses |-> TRUE, regions |-> NoRegions, page |-> PageText(n)] : n \in TextLens }
    \cup { [parses |-> TRUE,
            regions |-> << <<PageText(n)>>, <<>>, <<>>, <<>>, <<>>, <<Short>> >>,
            page |-> Short] : n \in TextLens }
    \cup { [parses |-> TRUE,
            regions |-> << <<>>, <<Short>>, <<PageText(n)>>, <<>>, <<>>, <<>> >>,
            page |-> PageText(n)] : n \in TextLens }
    \cup { [parses |-> TRUE,
            regions |-> << << <<>> >>, <<>>, <<>>, <<>>, <<>>, <<>> >>,
            page |-> PageText(n)] : n \in TextLens }

HtmlCalls == [fn : {"extract_text_from_html"}, arg : {NoneV}, answer : HtmlDocs]

LongPage == [parses |-> TRUE, regions |-> NoRegions, page |-> PageText(MinContentLen + 1)]

EdgePage == [parses |-> TRUE, regions |-> NoRegions, page |-> PageText(MinContentLen)]

DoiAnswer ==
    { [kind |-> "error", html |-> <<>>], [kind |-> "status", html |-> <<>>],
      [kind |-> "ok", html |-> LongPage], [kind |-> "ok", html |-> EdgePage] }

DoiAnswers == [1..2 -> DoiAnswer]

DoiCalls == [fn : {"fetch_from_doi"}, arg : {NoneV, Str(<<>>), Str(D1)}, answer : DoiAnswers]

ToolAnswers ==
    { [kind |-> "raise", rc |-> 0, text |-> <<>>],
      [kind |-> "exit", rc |-> 1, text |-> <<>>] }
    \cup { [kind |-> "exit", rc |-> 0, text |-> Pad(n)] : n \in TextLens }

PdfCalls == [fn : {"convert_pdf_to_text"}, arg : {NoneV}, answer : ToolAnswers]

ExtractCalls == PmcCalls \cup HtmlCalls \cup DoiCalls \cup PdfCalls

NoCall == [fn |-> "none", arg |-> NoneV, answer |-> Fault]

ExtractIdle ==
    /\ ex_pc = "off"
    /\ ex_call = NoCall
    /\ ex_cleaned = NoneV
    /\ ex_result = NoneV
    /\ ex_local = NoLocals
    /\ tmp_files = NoFiles
    /\ ex_n = 0

(***************************************************************************)
(* Bibliographic records given to parse_metadata                           *)
(***************************************************************************)
MaxIds == 2

\* ArticleId children: two DOIs, two PMC ids, an element without text, another type
IdEntries ==
    { [idtype |-> "doi", text |-> Str(D1)],
      [idtype |-> "doi", text |-> Str(D2)],
      [idtype |-> "pmc", text |-> Str(PMC1)],
      [idtype |-> "pmc", text |-> Str(PMC2)],
      [idtype |-> "doi", text |-> NoneV],
      [idtype |-> "pubmed", text |-> Str(<<"9">>)] }

IdLists == {<<>>} \cup { <<ids>> : ids \in UNION { [1..n -> IdEntries] : n \in 0..MaxIds } }

TitleElems ==
    { <<>>,
      << [frags |-> <<>>] >>,
      << [frags |-> << <<"T", "i">>, <<"t">> >>] >> }

AbstractElems ==
    { <<>>,
      << << [label |-> <<>>, frags |-> << <<"X">> >>] >> >>,
      << << [label |-> <<"A">>, frags |-> << <<"x">> >>],
            [label |-> <<>>, frags |-> << <<"y">> >>] >> >> }

Smith == [last |-> << Str(<<"S", "m">>) >>, fore |-> << Str(<<"J">>) >>]
Lee == [last |-> << Str(<<"L", "e">>) >>, fore |-> <<>>]
Collective == [last |-> <<>>, fore |-> << Str(<<"G">>) >>]
EmptyLast == [last |-> << NoneV >>, fore |-> <<>>]

AuthorElems ==
    { <<>>,
      << <<>> >>,
      << <<Smith, Lee>> >>,
      << <<Smith, Collective, Lee>> >>,
      << <<Lee, EmptyLast>> >> }

JournalElems ==
    { <<>>,
      << [title |-> <<>>] >>,
      << [title |-> << NoneV >>] >>,
      << [title |-> << Str(<<"J", "n">>) >>] >> }

PubDateElems ==
    { <<>>,
      << [year |-> <<>>] >>,
      << [year |-> << NoneV >>] >>,
      << [year |-> << Str(<<"2", "0">>) >>] >> }

Articles ==
    [title : TitleElems, abstract : AbstractElems, authors : AuthorElems,
     journal : JournalElems, pubdate : PubDateElems]

NotXml == [wellformed |-> FALSE, article |-> <<>>, idlist |-> <<>>]

Docs ==
    {NotXml} \cup
    [wellformed : {TRUE}, article : {<<>>} \cup { <<a>> : a \in Articles }, idlist : IdLists]

(***************************************************************************)
(* save_article                                                            *)
(***************************************************************************)
RuleWidth == 80

LabelPubMedId == <<"P", "u", "b", "M", "e", "d", " ", "I", "D", ":", " ">>

LabelTitle == <<"T", "i", "t", "l", "e", ":", " ">>

LabelAuthors == <<"A", "u", "t", "h", "o", "r", "s", ":", " ">>

LabelJournal == <<"J", "o", "u", "r", "n", "a", "l", ":", " ">>

LabelDoi == <<"D", "O", "I", ":", " ">>

\* line 289: "\n" + "="*80 + "\n"
RuleLine == <<"\n">> \o [k \in 1..RuleWidth |-> "="] \o <<"\n">>

HeadFullText == <<"F", "U", "L", "L", " ", "T", "E", "X", "T", ":", "\n">>

HeadAbstract == <<"A", "B", "S", "T", "R", "A", "C", "T", ":", "\n">>

NoContentNotice ==
    <<"N", "o", " ", "f", "u", "l", "l", " ", "t", "e", "x", "t", " ", "o", "r", " ",
      "a", "b", "s", "t", "r", "a", "c", "t", " ", "a", "v", "a", "i", "l", "a", "b",
      "l", "e", ".">>

\* line 278: ', '.join(authors) raises TypeError when an entry is None
Joinable(authors) == \A k \in 1..Len(authors) : authors[k].t = "str"

\* lines 280-284
JournalPart(md) ==
    IF Truthy(md.journal)
    THEN << LabelJournal \o md.journal.s
            \o (IF Truthy(md.year) THEN <<" ", "(">> \o md.year.s \o <<")">> ELSE <<>>) >>
    ELSE <<>>

\* lines 291-298 with the two tests exchanged: the abstract before the full text
BodyPartsAbstractFirst(md, text) ==
    IF Truthy(md.abstract) THEN <<HeadAbstract, md.abstract.s>>
    ELSE IF Truthy(text) THEN <<HeadFullText, text.s>>
    ELSE <<NoContentNotice>>

\* lines 291-298
BodyParts(md, text) ==
    IF Truthy(text) THEN <<HeadFullText, text.s>>
    ELSE IF Truthy(md.abstract) THEN <<HeadAbstract, md.abstract.s>>
    ELSE <<NoContentNotice>>

\* lines 273-298: content_parts (for authors that join)
ContentParts(pmid, md, text) ==
    << LabelPubMedId \o pmid, LabelTitle \o md.title.s >>
    \o (IF md.authors # <<>>
        THEN << LabelAuthors
                \o Join([k \in 1..Len(md.authors) |-> md.authors[k].s], <<",", " ">>) >>
        ELSE <<>>)
    \o JournalPart(md)
    \o (IF Truthy(md.doi) THEN << LabelDoi \o md.doi.s >> ELSE <<>>)
    \o <<RuleLine>>
    \o BodyParts(md, text)

\* lines 268-270: the file name within the output directory
ArticleFileName(pmid, md) ==
    <<"P", "M", "I", "D", "_">> \o pmid \o <<"_">> \o clean_filename(md.title.s)
    \o <<".", "t", "x", "t">>

\* lines 300-304: the document written; parts and writer are kept beside the
\* content to tell what was rendered and by which iteration
Document(pmid, md, text, iteration) ==
    [content |-> Join(ContentParts(pmid, md, text), <<"\n", "\n">>),
     parts   |-> ContentParts(pmid, md, text),
     writer  |-> iteration]

(***************************************************************************)
(* process_pmid and process_pmid_list: inputs                              *)
(***************************************************************************)
MaxLines == 2

\* lines of the identifier file: two identifiers (one with blanks around it)
\* and a blank line
FileLines ==
    { <<"1", "1", "\n">>, <<" ", "2", "2", " ", "\n">>, <<" ", "\n">> }

Files == UNION { [1..n -> FileLines] : n \in 0..MaxLines }

NoAbstract == <<>>

\* title, abstract, authors, journal with year, DOI and PMC id
FullRecord ==
    [wellformed |-> TRUE,
     article |-> << [title |-> << [frags |-> << <<"T", "i">>, <<"t">> >>] >>,
                     abstract |-> << << [label |-> <<>>, frags |-> << <<"X">> >>] >> >>,
                     authors |-> << <<Smith, Lee>> >>,
                     journal |-> << [title |-> << Str(<<"J", "n">>) >>] >>,
                     pubdate |-> << [year |-> << Str(<<"2", "0">>) >>] >>] >>,
     idlist |-> << << [idtype |-> "pmc", text |-> Str(PMC1)],
                      [idtype |-> "doi", text |-> Str(D1)] >> >>]

\* abstract "X"; no journal, year, DOI or PMC id
AbstractOnlyRecord ==
    [wellformed |-> TRUE,
     article |-> << [title |-> << [frags |-> << <<"T", "i">>, <<"t">> >>] >>,
                     abstract |-> << << [label |-> <<>>, frags |-> << <<"X">> >>] >> >>,
                     authors |-> <<>>,
                     journal |-> <<>>,
                     pubdate |-> <<>>] >>,
     idlist |-> <<>>]

\* a DOI only; no title element, no abstract, a journal but a Year without text
DoiOnlyRecord ==
    [wellformed |-> TRUE,
     article |-> << [title |-> <<>>,
                     abstract |-> NoAbstract,
                     authors |-> << <<Lee>> >>,
                     journal |-> << [title |-> << Str(<<"J", "n">>) >>] >>,
                     pubdate |-> << [year |-> << NoneV >>] >>] >>,
     idlist |-> << << [idtype |-> "doi", text |-> Str(D2)] >> >>]

\* a PMC id only, and an author whose LastName element has no text
EmptyLastNameRecord ==
    [wellformed |-> TRUE,
     article |-> << [title |-> << [frags |-> << <<"T", "-", " ", " ", "t">> >>] >>,
                     abstract |-> NoAbstract,
                     authors |-> << <<Lee, EmptyLast>> >>,
                     journal |-> <<>>,
                     pubdate |-> << [year |-> << Str(<<"2", "0">>) >>] >>] >>,
     idlist |-> << << [idtype |-> "pmc", text |-> Str(PMC2)] >> >>]

NoArticleRecord == [wellformed |-> TRUE, article |-> <<>>, idlist |-> <<>>]

NoXml == [t |-> "None", empty |-> TRUE, doc |-> NotXml]

EmptyXml == [t |-> "str", empty |-> TRUE, doc |-> NotXml]

XmlText(doc) == [t |-> "str", empty |-> FALSE, doc |-> doc]

\* bool(xml_data)
XmlTruthy(x) == x.t = "str" /\ ~x.empty

\* what the bibliographic endpoint answers: a fault, an empty body, a body
MetadataAnswers ==
    { [kind |-> "error", body |-> NoXml], [kind |-> "ok", body |-> EmptyXml] }
    \cup { [kind |-> "ok", body |-> XmlText(doc)] :
              doc \in {NotXml, NoArticleRecord, FullRecord, AbstractOnlyRecord,
                       DoiOnlyRecord, EmptyLastNameRecord} }

\* lines 27-42
fetch_article_metadata(answer) == IF answer.kind = "error" THEN NoXml ELSE answer.body

\* what the repository endpoint answers: a fault, a record of 500 characters
\* of text, one of 501
DriverPmcAnswers ==
    { Fault,
      [ok |-> TRUE, frags |-> << Str(Pad(MinContentLen)) >>],
      [ok |-> TRUE, frags |-> << Str(Pad(MinContentLen + 1)) >>] }

DriverDoiAnswers ==
    { << [kind |-> "error", html |-> <<>>], [kind |-> "status", html |-> <<>>] >>,
      << [kind |-> "status", html |-> <<>>], [kind |-> "ok", html |-> LongPage] >>,
      << [kind |-> "ok", html |-> EdgePage], [kind |-> "ok", html |-> LongPage] >> }

NoAttempts == [pmc |-> <<>>, doi |-> <<>>, saved |-> <<>>]

DriverIdle ==
    /\ d_pc = "off"
    /\ lines = <<>>
    /\ pmids = <<>>
    /\ i = 0
    /\ success_count = 0
    /\ fail_count = 0
    /\ sleeps = 0
    /\ xml_data = NoXml
    /\ metadata = NoMetadata
    /\ full_text = NoneV
    /\ documents = NoFiles
    /\ calls = <<>>
    /\ attempts = NoAttempts
    /\ handled = <<>>

(***************************************************************************)
(* Specification of parse_metadata applied to a record                     *)
(***************************************************************************)
ParseIdle ==
    /\ pm_pc = "off"
    /\ pm_doc = NotXml
    /\ pm_result = NoMetadata

ParseInit ==
    /\ pm_pc = "ready"
    /\ pm_doc \in Docs
    /\ pm_result = NoMetadata
    /\ FilenameIdle
    /\ ExtractIdle
    /\ DriverIdle

\* one call parse_metadata(pm_doc)
ParseCall ==
    /\ pm_pc = "ready"
    /\ pm_result' = parse_metadata(pm_doc)
    /\ pm_pc' = "returned"
    /\ UNCHANGED <<pm_doc, fn_vars, ex_vars, d_vars>>

ParseNext == ParseCall

SpecParse == ParseInit /\ [][ParseNext]_vars

Parseable(doc) == doc.wellformed /\ doc.article # <<>>

IdChildren(doc) == IF doc.idlist = <<>> THEN <<>> ELSE doc.idlist[1]

IdHits(doc, id_type) ==
    { k \in 1..Len(IdChildren(doc)) : IdChildren(doc)[k].idtype = id_type }

FirstOfType(doc, id_type) ==
    IF IdHits(doc, id_type) = {} THEN Str(<<>>)
    ELSE IdChildren(doc)[CHOOSE k \in IdHits(doc, id_type) :
                            \A j \in IdHits(doc, id_type) : k <= j].text

LastOfType(doc, id_type) ==
    IF IdHits(doc, id_type) = {} THEN Str(<<>>)
    ELSE IdChildren(doc)[CHOOSE k \in IdHits(doc, id_type) :
                            \A j \in IdHits(doc, id_type) : k >= j].text

\* C9 as stated: among several ArticleId entries of one type the first in
\* document order wins (doi = text of the first 'doi' entry, pmc_id = text of
\* the first 'pmc' entry), a missing type gives the empty string, and parsing
\* succeeds.
C9_FirstMatchWins ==
    (pm_pc = "returned" /\ Parseable(pm_doc)) =>
        /\ pm_result.t = "dict"
        /\ pm_result.doi = FirstOfType(pm_doc, "doi")
        /\ pm_result.pmc_id = FirstOfType(pm_doc, "pmc")

\* C9 amended: among several ArticleId entries of one type the LAST in
\* document order wins: doi is the text of the last 'doi' entry and pmc_id the
\* text of the last 'pmc' entry (None when that element has no text); when no
\* entry of a type exists the field is the empty string; parsing succeeds in
\* all these cases.
C9_LastMatchWins ==
    (pm_pc = "returned" /\ Parseable(pm_doc)) =>
        /\ pm_result.t = "dict"
        /\ pm_result.doi = LastOfType(pm_doc, "doi")
        /\ pm_result.pmc_id = LastOfType(pm_doc, "pmc")
        /\ (IdHits(pm_doc, "doi") = {} => pm_result.doi = Str(<<>>))
        /\ (IdHits(pm_doc, "pmc") = {} => pm_result.pmc_id = Str(<<>>))

\* a record with two different DOI entries has been parsed: the first is
\* 10.1, the result is the second, 10.2
C9_Witness ==
    /\ pm_pc = "returned"
    /\ pm_result.t = "dict"
    /\ Cardinality(IdHits(pm_doc, "doi")) = 2
    /\ FirstOfType(pm_doc, "doi") = Str(D1)
    /\ pm_result.doi = Str(D2)

\* C10: every metadata object parse_metadata returns has a non-empty string
\* title and string (never None) journal, year, doi and pmc_id, also for
\* records whose elements are present but carry no text.
C10_MetadataInvariant ==
    (pm_pc = "returned" /\ pm_result.t = "dict") =>
        /\ Truthy(pm_result.title)
        /\ pm_result.journal.t = "str"
        /\ pm_result.year.t = "str"
        /\ pm_result.doi.t = "str"
        /\ pm_result.pmc_id.t = "str"

(***************************************************************************)
(* Specification of clean_filename applied to a title                      *)
(***************************************************************************)
FilenameInit ==
    /\ fn_pc = "ready"
    /\ fn_title \in Titles
    /\ fn_result = <<>>
    /\ ParseIdle
    /\ ExtractIdle
    /\ DriverIdle

\* one call clean_filename(fn_title)
FilenameCall ==
    /\ fn_pc = "ready"
    /\ fn_result' = clean_filename(fn_title)
    /\ fn_pc' = "returned"
    /\ UNCHANGED <<fn_title, pm_vars, ex_vars, d_vars>>

FilenameNext == FilenameCall

SpecFilename == FilenameInit /\ [][FilenameNext]_vars

Chars(text) == { text[k] : k \in 1..Len(text) }

NoDoubleUnderscore(text) ==
    \A k \in 1..(Len(text) - 1) : ~(text[k] = "_" /\ text[k + 1] = "_")

\* C7 as stated: the result has at most 100 characters, all of them word
\* characters (no hyphen or other punctuation), and no two consecutive
\* underscores.
C7_OnlyWordCharsSingleUnderscores ==
    fn_pc = "returned" =>
        /\ Len(fn_result) <= FilenameLimit
        /\ \A c \in Chars(fn_result) : IsWord(c)
        /\ NoDoubleUnderscore(fn_result)

\* C7 amended: the result has at most 100 characters, each a word character
\* or a hyphen (hyphens are kept; whitespace and all other punctuation are
\* gone, each whitespace run left after the removal having become one
\* underscore), and it has two consecutive underscores only if the title
\* itself contains an underscore.
C7_WordOrHyphenBounded ==
    fn_pc = "returned" =>
        /\ Len(fn_result) <= FilenameLimit
        /\ \A c \in Chars(fn_result) : IsWord(c) \/ c = "-"
        /\ ("_" \notin Chars(fn_title) => NoDoubleUnderscore(fn_result))

\* a title longer than the limit, holding a hyphen and a whitespace run, has
\* been cleaned and cut to exactly 100 characters
C7_Witness ==
    /\ fn_pc = "returned"
    /\ Len(fn_title) > FilenameLimit
    /\ \E k \in 1..(Len(fn_title) - 1) : IsSpace(fn_title[k]) /\ IsSpace(fn_title[k + 1])
    /\ Len(fn_result) = FilenameLimit
    /\ "-" \in Chars(fn_result)
    /\ "_" \in Chars(fn_result)

(***************************************************************************)
(* Specification of the extractors, called one after another               *)
(***************************************************************************)
ExtractInit ==
    /\ ex_pc = "ready"
    /\ ex_call \in ExtractCalls
    /\ ex_cleaned = NoneV
    /\ ex_result = NoneV
    /\ ex_local = NoLocals
    /\ tmp_files = NoFiles
    /\ ex_n = 1
    /\ ParseIdle
    /\ FilenameIdle
    /\ DriverIdle

\* fetch_from_pmc(arg), the remote end answering with answer
PmcCall ==
    /\ ex_pc = "ready"
    /\ ex_call.fn = "fetch_from_pmc"
    /\ ex_cleaned' = PmcTested(ex_call.arg, ex_call.answer)
    /\ ex_result' = fetch_from_pmc(ex_call.arg, ex_call.answer)
    /\ ex_pc' = "returned"
    /\ UNCHANGED <<ex_call, ex_local, tmp_files, ex_n, pm_vars, fn_vars, d_vars>>

\* extract_text_from_html(answer)
HtmlCall ==
    /\ ex_pc = "ready"
    /\ ex_call.fn = "extract_text_from_html"
    /\ ex_cleaned' = HtmlTested(ex_call.answer)
    /\ ex_result' = extract_text_from_html(ex_call.answer)
    /\ ex_pc' = "returned"
    /\ UNCHANGED <<ex_call, ex_local, tmp_files, ex_n, pm_vars, fn_vars, d_vars>>

\* fetch_from_doi(arg), the two sources answering with answer
DoiCall ==
    /\ ex_pc = "ready"
    /\ ex_call.fn = "fetch_from_doi"
    /\ ex_cleaned' = DoiTested(ex_call.arg, ex_call.answer)
    /\ ex_result' = fetch_from_doi(ex_call.arg, ex_call.answer)
    /\ ex_pc' = "returned"
    /\ UNCHANGED <<ex_call, ex_local, tmp_files, ex_n, pm_vars, fn_vars, d_vars>>

\* convert_pdf_to_text, lines 228-230: the input file is created and written
PdfWriteInput ==
    /\ ex_pc = "ready"
    /\ ex_call.fn = "convert_pdf_to_text"
    /\ tmp_files' = WithFile(tmp_files, TempName(".pdf", ex_n), <<"%", "P", "D", "F">>)
    /\ ex_local' = [ex_local EXCEPT !.tmp_pdf_path = <<TempName(".pdf", ex_n)>>]
    /\ ex_pc' = "pdf_written"
    /\ UNCHANGED <<ex_call, ex_cleaned, ex_result, ex_n, pm_vars, fn_vars, d_vars>>

\* lines 232-233: the empty output file is created
PdfMakeOutput ==
    /\ ex_pc = "pdf_written"
    /\ tmp_files' = WithFile(tmp_files, TempName(".txt", ex_n), <<>>)
    /\ ex_local' = [ex_local EXCEPT !.tmp_txt_path = <<TempName(".txt", ex_n)>>]
    /\ ex_pc' = "txt_made"
    /\ UNCHANGED <<ex_call, ex_cleaned, ex_result, ex_n, pm_vars, fn_vars, d_vars>>

\* lines 236-240: subprocess.run returns; the tool has written its output
PdfToolExits ==
    /\ ex_pc = "txt_made"
    /\ ex_call.answer.kind = "exit"
    /\ tmp_files' = IF ex_call.answer.rc = 0
                    THEN WithFile(tmp_files, ex_local.tmp_txt_path[1], ex_call.answer.text)
                    ELSE tmp_files
    /\ ex_local' = [ex_local EXCEPT !.returncode = <<ex_call.answer.rc>>]
    /\ ex_pc' = "tool_done"
    /\ UNCHANGED <<ex_call, ex_cleaned, ex_result, ex_n, pm_vars, fn_vars, d_vars>>

\* lines 236-240 and 253-255: subprocess.run raises (time-out, tool missing);
\* the handler returns None
PdfToolRaises ==
    /\ ex_pc = "txt_made"
    /\ ex_call.answer.kind = "raise"
    /\ ex_result' = NoneV
    /\ ex_pc' = "returned"
    /\ UNCHANGED <<ex_call, ex_cleaned, ex_local, tmp_files, ex_n, pm_vars, fn_vars, d_vars>>

\* lines 242-250: exit code 0: read the output, unlink both files, test the length
PdfReadBack ==
    /\ ex_pc = "tool_done"
    /\ ex_local.returncode = <<0>>
    /\ ex_cleaned' = Str(tmp_files[ex_local.tmp_txt_path[1]])
    /\ tmp_files' = Unlink(Unlink(tmp_files, ex_local.tmp_pdf_path[1]),
                           ex_local.tmp_txt_path[1])
    /\ ex_result' = PdfThreshold(tmp_files[ex_local.tmp_txt_path[1]])
    /\ ex_pc' = "returned"
    /\ UNCHANGED <<ex_call, ex_local, ex_n, pm_vars, fn_vars, d_vars>>

\* line 252: another exit code
PdfToolFailed ==
    /\ ex_pc = "tool_done"
    /\ ex_local.returncode # <<0>>
    /\ ex_result' = NoneV
    /\ ex_pc' = "returned"
    /\ UNCHANGED <<ex_call, ex_cleaned, ex_local, tmp_files, ex_n, pm_vars, fn_vars, d_vars>>

\* the next call of an extractor; the temporary directory is as the calls
\* before left it
ExtractAgain ==
    /\ ex_pc = "returned"
    /\ ex_n < MaxCalls
    /\ ex_call' \in ExtractCalls
    /\ ex_n' = ex_n + 1
    /\ ex_cleaned' = NoneV
    /\ ex_result' = NoneV
    /\ ex_local' = NoLocals
    /\ ex_pc' = "ready"
    /\ UNCHANGED <<tmp_files, pm_vars, fn_vars, d_vars>>

ExtractNext ==
    \/ PmcCall
    \/ HtmlCall
    \/ DoiCall
    \/ PdfWriteInput
    \/ PdfMakeOutput
    \/ PdfToolExits
    \/ PdfToolRaises
    \/ PdfReadBack
    \/ PdfToolFailed
    \/ ExtractAgain

SpecExtract == ExtractInit /\ [][ExtractNext]_vars

\* C6 as stated: each extractor returns the cleaned text when its length is
\* at least 500 (so a text of exactly 500 characters is accepted) and returns
\* nothing when it is shorter than 500; no returned string is shorter than 500.
C6_AcceptedFrom500 ==
    ex_pc = "returned" =>
        /\ ex_cleaned.t = "str" =>
              /\ Len(ex_cleaned.s) >= MinContentLen => ex_result = ex_cleaned
              /\ Len(ex_cleaned.s) < MinContentLen => ex_result = NoneV
        /\ ex_result.t = "str" => Len(ex_result.s) >= MinContentLen

\* C6 amended: each extractor returns the cleaned text when its length is
\* greater than 500 and returns nothing when it is 500 or less: a text of
\* exactly 500 characters (like one of 499) is rejected, one of 501 is
\* accepted, and no returned string has 500 characters or fewer.
C6_AcceptedAbove500 ==
    ex_pc = "returned" =>
        /\ ex_cleaned.t = "str" =>
              /\ Len(ex_cleaned.s) > MinContentLen => ex_result = ex_cleaned
              /\ Len(ex_cleaned.s) <= MinContentLen => ex_result = NoneV
        /\ ex_result.t = "str" => Len(ex_result.s) > MinContentLen

\* fetch_from_pmc has returned nothing for a cleaned text of exactly 500 characters
C6_Witness ==
    /\ ex_pc = "returned"
    /\ ex_call.fn = "fetch_from_pmc"
    /\ ex_cleaned.t = "str"
    /\ Len(ex_cleaned.s) = MinContentLen
    /\ ex_result = NoneV

\* C8: no transient file of a convert_pdf_to_text call exists once the call
\* has returned, whatever the tool did: the only files of the temporary
\* directory are those of a call still running.
C8_TransientFilesRemoved ==
    \A f \in DOMAIN tmp_files :
        f.call = ex_n /\ ex_pc \in {"pdf_written", "txt_made", "tool_done"}

(***************************************************************************)
(* Specification of process_pmid_list                                      *)
(***************************************************************************)
d_locals == <<xml_data, metadata, full_text>>

d_list == <<lines, pmids, i>>

d_tally == <<success_count, fail_count, handled>>

others == <<pm_vars, fn_vars, ex_vars>>

\* line 355: the stripped non-blank lines, in order
ReadIds(file) ==
    LET kept == SelectSeq(file, LAMBDA line : Strip(line) # <<>>)
    IN  [k \in 1..Len(kept) |-> Strip(kept[k])]

\* lines 370-372 without "fail_count += 1": an exception is logged, not counted
TallyIgnoringRaise(tally, result) ==
    IF result = "True" THEN [tally EXCEPT !.success = @ + 1]
    ELSE IF result = "False" THEN [tally EXCEPT !.fail = @ + 1]
    ELSE tally

\* lines 365-372: result is "True" or "False" (what process_pmid returned) or
\* "raised" (it raised an exception)
Tally(tally, result) ==
    IF result = "True" THEN [tally EXCEPT !.success = @ + 1]
    ELSE [tally EXCEPT !.fail = @ + 1]

\* lines 365-372: the iteration for pmids[i] ends with result; md is the
\* metadata process_pmid had
Counted(result, md) ==
    /\ success_count' = Tally([success |-> success_count, fail |-> fail_count], result).success
    /\ fail_count' = Tally([success |-> success_count, fail |-> fail_count], result).fail
    /\ handled' = Append(handled, [pmid |-> pmids[i], result |-> result,
                                   parsed |-> md.t = "dict"])
    /\ d_pc' = "pause"

\* line 336 without "not full_text": the DOI is tried whenever there is one
DoiTriedAlways(text, md) == Truthy(md.doi)

\* line 336
DoiTried(text, md) == ~Truthy(text) /\ Truthy(md.doi)

Init ==
    /\ d_pc = "start"
    /\ lines \in Files
    /\ pmids = <<>>
    /\ i = 0
    /\ success_count = 0
    /\ fail_count = 0
    /\ sleeps = 0
    /\ xml_data = NoXml
    /\ metadata = NoMetadata
    /\ full_text = NoneV
    /\ documents = NoFiles
    /\ calls = <<>>
    /\ attempts = NoAttempts
    /\ handled = <<>>
    /\ ParseIdle
    /\ FilenameIdle
    /\ ExtractIdle

\* lines 354-360
ReadPmids ==
    /\ d_pc = "start"
    /\ pmids' = ReadIds(lines)
    /\ d_pc' = "loop"
    /\ UNCHANGED <<lines, i, d_tally, sleeps, d_locals, documents, calls, attempts, others>>

\* line 354: the identifier file cannot be opened; the exception leaves
\* process_pmid_list
OpenFails ==
    /\ d_pc = "start"
    /\ d_pc' = "crashed"
    /\ UNCHANGED <<d_list, d_tally, sleeps, d_locals, documents, calls, attempts, others>>

\* line 362: the next identifier; process_pmid starts with fresh locals
NextPmid ==
    /\ d_pc = "loop"
    /\ i < Len(pmids)
    /\ i' = i + 1
    /\ xml_data' = NoXml
    /\ metadata' = NoMetadata
    /\ full_text' = NoneV
    /\ calls' = <<>>
    /\ attempts' = NoAttempts
    /\ d_pc' = "fetch_metadata"
    /\ UNCHANGED <<lines, pmids, d_tally, sleeps, documents, others>>

\* lines 313-316
FetchMetadata ==
    /\ d_pc = "fetch_metadata"
    /\ \E answer \in MetadataAnswers :
          /\ xml_data' = fetch_article_metadata(answer)
          /\ calls' = Append(calls, "fetch_article_metadata")
          /\ IF XmlTruthy(fetch_article_metadata(answer))
             THEN d_pc' = "parse" /\ UNCHANGED d_tally
             ELSE Counted("False", metadata)
    /\ UNCHANGED <<d_list, sleeps, metadata, full_text, documents, attempts, others>>

\* lines 318-323
ParseMetadata ==
    /\ d_pc = "parse"
    /\ metadata' = parse_metadata(xml_data.doc)
    /\ calls' = Append(calls, "parse_metadata")
    /\ IF parse_metadata(xml_data.doc).t = "None"
       THEN Counted("False", parse_metadata(xml_data.doc))
       ELSE d_pc' = "try_pmc" /\ UNCHANGED d_tally
    /\ UNCHANGED <<d_list, sleeps, xml_data, full_text, documents, attempts, others>>

\* lines 329-333, a PMC id present
TryPmc ==
    /\ d_pc = "try_pmc"
    /\ Truthy(metadata.pmc_id)
    /\ \E answer \in DriverPmcAnswers :
          /\ full_text' = fetch_from_pmc(metadata.pmc_id, answer)
          /\ attempts' = [attempts EXCEPT !.pmc = <<fetch_from_pmc(metadata.pmc_id, answer)>>]
    /\ calls' = Append(calls, "fetch_from_pmc")
    /\ d_pc' = "try_doi"
    /\ UNCHANGED <<d_list, d_tally, sleeps, xml_data, metadata, documents, others>>

\* line 329, no PMC id
SkipPmc ==
    /\ d_pc = "try_pmc"
    /\ ~Truthy(metadata.pmc_id)
    /\ d_pc' = "try_doi"
    /\ UNCHANGED <<d_list, d_tally, sleeps, d_locals, documents, calls, attempts, others>>

\* lines 336-340, no text yet and a DOI present
TryDoi ==
    /\ d_pc = "try_doi"
    /\ DoiTried(full_text, metadata)
    /\ \E answer \in DriverDoiAnswers :
          /\ full_text' = fetch_from_doi(metadata.doi, answer)
          /\ attempts' = [attempts EXCEPT !.doi = <<fetch_from_doi(metadata.doi, answer)>>]
    /\ calls' = Append(calls, "fetch_from_doi")
    /\ d_pc' = "save"
    /\ UNCHANGED <<d_list, d_tally, sleeps, xml_data, metadata, documents, others>>

\* line 336, otherwise
SkipDoi ==
    /\ d_pc = "try_doi"
    /\ ~DoiTried(full_text, metadata)
    /\ d_pc' = "save"
    /\ UNCHANGED <<d_list, d_tally, sleeps, d_locals, documents, calls, attempts, others>>

\* lines 346-349 and 265-306: the document is written, process_pmid returns True
SaveArticle ==
    /\ d_pc = "save"
    /\ Joinable(metadata.authors)
    /\ calls' = Append(calls, "save_article")
    /\ attempts' = [attempts EXCEPT !.saved = <<full_text>>]
    /\ documents' = WithFile(documents, ArticleFileName(pmids[i], metadata),
                             Document(pmids[i], metadata, full_text, i))
    /\ Counted("True", metadata)
    /\ UNCHANGED <<d_list, sleeps, d_locals, others>>

\* lines 346 and 278: ', '.join raises TypeError on an author that is None;
\* the exception reaches the handler of lines 370-372
SaveRaisesTypeError ==
    /\ d_pc = "save"
    /\ ~Joinable(metadata.authors)
    /\ calls' = Append(calls, "save_article")
    /\ attempts' = [attempts EXCEPT !.saved = <<full_text>>]
    /\ Counted("raised", metadata)
    /\ UNCHANGED <<d_list, sleeps, d_locals, documents, others>>

\* lines 346 and 303: open() raises OSError (directory gone, disk full, name
\* not usable); the exception reaches the handler of lines 370-372
SaveRaisesOSError ==
    /\ d_pc = "save"
    /\ Joinable(metadata.authors)
    /\ calls' = Append(calls, "save_article")
    /\ attempts' = [attempts EXCEPT !.saved = <<full_text>>]
    /\ Counted("raised", metadata)
    /\ UNCHANGED <<d_list, sleeps, d_locals, documents, others>>

\* lines 375-376: the pause before the next identifier, none after the last
\* (delay is a number of seconds, not negative)
Pause ==
    /\ d_pc = "pause"
    /\ sleeps' = IF i < Len(pmids) THEN sleeps + 1 ELSE sleeps
    /\ d_pc' = "loop"
    /\ UNCHANGED <<d_list, d_tally, d_locals, documents, calls, attempts, others>>

\* lines 378-383: the loop is over, the summary is printed
Summary ==
    /\ d_pc = "loop"
    /\ i = Len(pmids)
    /\ d_pc' = "done"
    /\ UNCHANGED <<d_list, d_tally, sleeps, d_locals, documents, calls, attempts, others>>

Next ==
    \/ ReadPmids
    \/ OpenFails
    \/ NextPmid
    \/ FetchMetadata
    \/ ParseMetadata
    \/ TryPmc
    \/ SkipPmc
    \/ TryDoi
    \/ SkipDoi
    \/ SaveArticle
    \/ SaveRaisesTypeError
    \/ SaveRaisesOSError
    \/ Pause
    \/ Summary

Spec == Init /\ [][Next]_vars

Called(fn) == \E k \in 1..Len(calls) : calls[k] = fn

\* indices of the finished iterations with a given property
Finished == 1..Len(handled)

\* C1: an identifier is counted as failed only when its metadata could not be
\* fetched or parsed; whenever metadata was fetched and parsed it is counted
\* as succeeded, also when processing ended in the exception handler.
C1_FailedOnlyWithoutMetadata ==
    /\ \A k \in Finished : handled[k].parsed <=> handled[k].result = "True"
    /\ fail_count = Cardinality({ k \in Finished : ~handled[k].parsed })
    /\ success_count = Cardinality({ k \in Finished : handled[k].parsed })

PmcSucceeded == attempts.pmc # <<>> /\ Truthy(attempts.pmc[1])

DoiSucceeded == attempts.doi # <<>> /\ Truthy(attempts.doi[1])

\* C2: for an identifier with metadata, fetch_from_pmc is attempted iff the
\* metadata has a non-empty PMC id; fetch_from_doi is attempted iff the PMC
\* attempt was skipped or returned no text and the metadata has a non-empty
\* DOI, never after a successful PMC attempt and never before the PMC attempt;
\* save_article is given the result of the first successful attempt, or None.
C2_PmcThenDoiShortCircuit ==
    /\ (metadata.t = "dict" /\ d_pc \in {"try_doi", "save", "pause", "loop", "done"}) =>
          /\ Called("fetch_from_pmc") <=> Truthy(metadata.pmc_id)
          /\ Called("fetch_from_pmc") <=> attempts.pmc # <<>>
    /\ (metadata.t = "dict" /\ d_pc \in {"save", "pause", "loop", "done"}) =>
          /\ Called("fetch_from_doi") <=> (~PmcSucceeded /\ Truthy(metadata.doi))
          /\ Called("fetch_from_doi") <=> attempts.doi # <<>>
    /\ PmcSucceeded => ~Called("fetch_from_doi")
    /\ \A j, k \in 1..Len(calls) :
          (calls[j] = "fetch_from_doi" /\ calls[k] = "fetch_from_pmc") => k < j
    /\ attempts.saved # <<>> =>
          attempts.saved[1] = IF PmcSucceeded THEN attempts.pmc[1]
                              ELSE IF DoiSucceeded THEN attempts.doi[1]
                              ELSE NoneV

\* the PMC attempt returned nothing, the DOI attempt returned text, and
\* save_article was given that text
C2_Witness ==
    /\ d_pc = "pause"
    /\ attempts.pmc = <<NoneV>>
    /\ DoiSucceeded
    /\ attempts.saved = attempts.doi

FetchFailed == Called("fetch_article_metadata") /\ ~XmlTruthy(xml_data)

ParseFailed == Called("parse_metadata") /\ XmlTruthy(xml_data) /\ ~Parseable(xml_data.doc)

\* C3: when the metadata fetch fails (a fault or an empty body) or the record
\* cannot be parsed (not XML, no Article element), process_pmid has ended for
\* that identifier with a failure: fetch_from_pmc, fetch_from_doi and
\* save_article are not called and the iteration writes no document.
C3_NoAttemptWithoutMetadata ==
    (FetchFailed \/ ParseFailed) =>
        /\ ~Called("fetch_from_pmc")
        /\ ~Called("fetch_from_doi")
        /\ ~Called("save_article")
        /\ \A f \in DOMAIN documents : documents[f].writer # i
        /\ d_pc \in {"pause", "loop", "done"}
        /\ Len(handled) = i
        /\ handled[i].result = "False"
        /\ attempts = NoAttempts

\* the second identifier's record has no Article element, after the first
\* identifier's document was written
C3_Witness ==
    /\ d_pc = "pause"
    /\ i = 2
    /\ ParseFailed
    /\ xml_data.doc = NoArticleRecord
    /\ DOMAIN documents # {}

NonBlankLines == { k \in 1..Len(lines) : Strip(lines[k]) # <<>> }

C4_Tally ==
    /\ d_pc \notin {"start", "crashed"} =>
          /\ pmids = ReadIds(lines)
          /\ Len(pmids) = Cardinality(NonBlankLines)
    /\ Len(handled) = IF d_pc \in {"fetch_metadata", "parse", "try_pmc", "try_doi", "save"}
                      THEN i - 1 ELSE i
    /\ \A k \in Finished : handled[k].pmid = pmids[k]
    /\ success_count + fail_count = Len(handled)
    /\ success_count = Cardinality({ k \in Finished : handled[k].result = "True" })
    /\ fail_count = Cardinality({ k \in Finished : handled[k].result # "True" })
    /\ d_pc = "done" =>
          /\ Len(handled) = Len(pmids)
          /\ success_count + fail_count = Cardinality(NonBlankLines)
    /\ d_pc \notin {"done", "crashed"} => ENABLED Next

C4_Step ==
    /\ success_count' >= success_count
    /\ fail_count' >= fail_count
    /\ success_count' + fail_count' <= success_count + fail_count + 1
    /\ i' \in {i, i + 1}
    /\ Len(handled') >= Len(handled)

\* C4: the identifiers are exactly the non-blank lines, each handled once and
\* in input order; an exception in one iteration counts as one failure and the
\* loop goes on to the next identifier; after every finished iteration
\* succeeded + failed is the number of iterations, at the end it is the number
\* of non-blank lines, and neither counter ever decreases.
C4_EveryIdentifierCountedOnce == []C4_Tally /\ [][C4_Step]_vars

\* two identifiers: the first ended in the exception handler, the second
\* succeeded, and the summary was reached
C4_Witness ==
    /\ d_pc = "done"
    /\ Len(handled) = 2
    /\ handled[1].result = "raised"
    /\ handled[2].result = "True"
    /\ fail_count = 1
    /\ success_count = 1

HasPrefix(text, prefix) ==
    Len(text) >= Len(prefix) /\ SubSeq(text, 1, Len(prefix)) = prefix

\* the document the iteration just wrote
Written == documents[ArticleFileName(pmids[i], metadata)]

JustSaved ==
    /\ d_pc = "pause"
    /\ Len(handled) = i
    /\ handled[i].result = "True"

\* position of the rule line among the parts of the document
RuleAt(parts) == CHOOSE r \in 1..Len(parts) :
                    parts[r] = RuleLine /\ \A q \in 1..(r - 1) : parts[q] # RuleLine

Labelled(parts, label) ==
    { k \in 3..(RuleAt(parts) - 1) : HasPrefix(parts[k], label) }

\* C5: the parts of a written document are, in this order, the identifier
\* line, the title line, the authors line (iff there are authors), the journal
\* line (iff the journal is non-empty; with " (year)" iff the year is
\* non-empty), the DOI line (iff the DOI is non-empty), the rule line, and a
\* body that is the full text under FULL TEXT when there is full text,
\* otherwise the abstract under ABSTRACT when there is one, otherwise the
\* notice; the content is the parts joined by blank lines.
C5_DocumentLayout ==
    JustSaved =>
        LET parts == Written.parts
            text == attempts.saved[1]
            r == RuleAt(parts)
            A == Labelled(parts, LabelAuthors)
            J == Labelled(parts, LabelJournal)
            D == Labelled(parts, LabelDoi)
        IN  /\ \E q \in 1..Len(parts) : parts[q] = RuleLine
            /\ Len(RuleLine) = RuleWidth + 2
            /\ parts[1] = LabelPubMedId \o pmids[i]
            /\ parts[2] = LabelTitle \o metadata.title.s
            /\ A \cup J \cup D = 3..(r - 1)
            /\ Cardinality(A) <= 1 /\ Cardinality(J) <= 1 /\ Cardinality(D) <= 1
            /\ \A a \in A, j \in J, d \in D : a < j /\ j < d
            /\ \A a \in A, j \in J : a < j
            /\ \A a \in A, d \in D : a < d
            /\ \A j \in J, d \in D : j < d
            /\ A # {} <=> metadata.authors # <<>>
            /\ J # {} <=> Truthy(metadata.journal)
            /\ D # {} <=> Truthy(metadata.doi)
            /\ \A j \in J :
                  parts[j] = LabelJournal \o metadata.journal.s
                             \o (IF Truthy(metadata.year)
                                 THEN <<" ", "(">> \o metadata.year.s \o <<")">>
                                 ELSE <<>>)
            /\ \A d \in D : parts[d] = LabelDoi \o metadata.doi.s
            /\ Truthy(text) =>
                  SubSeq(parts, r + 1, Len(parts)) = <<HeadFullText, text.s>>
            /\ (~Truthy(text) /\ Truthy(metadata.abstract)) =>
                  SubSeq(parts, r + 1, Len(parts)) = <<HeadAbstract, metadata.abstract.s>>
            /\ (~Truthy(text) /\ ~Truthy(metadata.abstract)) =>
                  SubSeq(parts, r + 1, Len(parts)) = <<NoContentNotice>>
            /\ Written.content = Join(parts, <<"\n", "\n">>)

\* a record with abstract "X" and no journal, year or DOI was saved without
\* full text: identifier, title, rule line, ABSTRACT heading, "X"
C5_Witness ==
    /\ JustSaved
    /\ xml_data.doc = AbstractOnlyRecord
    /\ attempts.saved = <<NoneV>>
    /\ Len(Written.parts) = 5
    /\ Written.parts[4] = HeadAbstract
    /\ Written.parts[5] = <<"X">>

====
